---- MODULE Spec2Model ----
(***************************************************************************)
(* Model of the jimgabang reservation backend: the Service and Booking     *)
(* route handlers of routes/reservations.py on top of the generic          *)
(* document store of database/connections.py.                              *)
(*                                                                         *)
(* The Host and Client route handlers of routes/users.py, the token codec   *)
(* of auth/jwt_handler.py and the auth dependency of auth/authenticate.py   *)
(* are modelled the same way over the "hosts" and "clients" collections.    *)
(*                                                                         *)
(* The handlers that read a booking and its service and write both are     *)
(* also run stretch by stretch, from one await on the database to the      *)
(* next, interleaved with each other's stretches and the Host's updates.   *)
(*                                                                         *)
(* A handler is a function of the database it finds, the principal the     *)
(* auth dependency hands it and the request, to the database it leaves and *)
(* its reply: the status code and detail of the HTTPException it raises,   *)
(* 500 for an exception nobody catches, 200 when it reaches its return.    *)
(* A Python value that may be None is a sequence of length 0 (None, or the *)
(* False sentinel of Database.get) or of length 1 (the value).             *)
(***************************************************************************)
EXTENDS Integers, Sequences, FiniteSets, TLC

\* ---------------------------------------------------------------- bounds
MaxServices == 1
MaxBookings == 2
MaxBag == 2
MaxRequests == 2
MaxPrincipals == 2
MaxSignins == 1
MaxRefreshes == 1
MaxTicks == 2

\* ---------------------------------------------------------------- inputs
Emails == {"a@x.io", "b@x.io"}
ServiceIds == 1..MaxServices
BookingIds == 1..MaxBookings
Requests == 1..MaxRequests
BagValues == {-1} \cup 1..MaxBag
CapValues == {MaxBag - 1, MaxBag}
Statuses == {"pending", "confirmed", "cancelled"}

Null == <<>>
Some(v) == <<v>>
Opt(S) == {Null} \cup {Some(v) : v \in S}

VARIABLES
  services,     \* the "services" collection: id -> Service document
  bookings,     \* the "bookings" collection: id -> Booking document
  nextService,  \* number of Service ids handed out so far
  nextBooking,  \* number of Booking ids handed out so far
  pristine,     \* history: services created with available_bag =
                \* total_available_bag that no PUT /service/{id} has changed
  reqs,         \* the booking requests in flight, each with its handler
                \* (op) and its locals: body, the booking and the service
                \* it read, its booking's id
  hosts,        \* the "hosts" collection: id -> Host document
  clients,      \* the "clients" collection: id -> Client document
  nextId,       \* number of Host and Client ids handed out so far
  now,          \* the clock: time.time(), datetime.utcnow()
  issued,       \* history: the tokens the signin and refresh-token routes
                \* have returned, each with the kind of principal that
                \* signed in and its use (access or refresh)
  signups       \* the signup requests in flight, each with its locals

resvars == <<services, bookings, nextService, nextBooking, pristine, reqs>>

uservars == <<hosts, clients, nextId, now, issued, signups>>

vars == <<resvars, uservars>>

\* The database as the handlers see it.
DB ==
  [services |-> services, bookings |-> bookings,
   nextService |-> nextService, nextBooking |-> nextBooking]

\* ------------------------------------------------------- document schemas
\* Fields that are Optional in the schema and are stored as they are (None
\* or a value); every other field is stored unwrapped.
OptionalFields == {"bookings"}

\* model_dump() of a document: every field as value-or-None.
model_dump(doc) ==
  [f \in DOMAIN doc |-> IF f \in OptionalFields THEN doc[f] ELSE Some(doc[f])]

\* ------------------------------------------------------------ Database
\* Database.get: the document, or the False sentinel.
Database_get(coll, id) == IF id \in DOMAIN coll THEN Some(coll[id]) ELSE Null

\* Database.save: document.create() inserts the document.
Database_save(coll, id, doc) == coll @@ (id :> doc)

\* What Database.save returns to its caller: a bare "return".
Database_save_result(id) == Null

\* Variant: the fields of the body that are None are written too, which
\* leaves the document without a value for them.
set_fields_with_none(doc, body) ==
  LET unset == {f \in DOMAIN doc \cap DOMAIN body :
                  body[f] = Null /\ f \notin OptionalFields}
  IN [f \in DOMAIN doc \ unset |->
        IF f \in DOMAIN body
          THEN (IF f \in OptionalFields THEN body[f] ELSE body[f][1])
          ELSE doc[f]]

\* The $set of Database.update on one document: the fields of the body that
\* are not None overwrite, everything else stays.
set_fields(doc, body) ==
  [f \in DOMAIN doc |->
     IF f \in DOMAIN body /\ body[f] # Null
       THEN (IF f \in OptionalFields THEN body[f] ELSE body[f][1])
       ELSE doc[f]]

\* Database.update: the collection afterwards (as it was when id is absent).
Database_update(coll, id, body) ==
  IF id \in DOMAIN coll
    THEN [coll EXCEPT ![id] = set_fields(coll[id], body)]
    ELSE coll

\* What Database.update returns: the document, or the False sentinel.
Database_update_result(coll, id, body) ==
  Database_get(Database_update(coll, id, body), id)

\* Database.delete: the collection afterwards.
Database_delete(coll, id) == [i \in DOMAIN coll \ {id} |-> coll[i]]

\* ------------------------------------------------------------- replies
Reply(db, code, detail) == [db |-> db, code |-> code, detail |-> detail]

Unhandled == "Internal Server Error"

\* ------------------------------------------------------- handler tests
\* Variant: the ownership test left out.
not_owner_never(doc, current_user) == FALSE

\* Variant: the ownership test inverted.
not_owner_inverted(doc, current_user) == doc.creator = current_user

\* doc.creator != current_user.email
not_owner(doc, current_user) == doc.creator # current_user

\* Variant: the creator the request carried is kept.
set_creator_from_payload(payload, current_user) == payload

\* body.creator = current_user.email
set_creator(payload, current_user) == [payload EXCEPT !.creator = current_user]

\* Variant: the capacity test off by one.
capacity_exceeded_off_by_one(booking_bag, available_bag) ==
  booking_bag > available_bag + 1

\* Variant: the capacity test refusing the last bags.
capacity_exceeded_at_limit(booking_bag, available_bag) ==
  booking_bag >= available_bag

\* create_booking: body.booking_bag > service.available_bag
capacity_exceeded(booking_bag, available_bag) == booking_bag > available_bag

\* Variant: an update that takes every remaining bag is refused.
update_exceeds_at_limit(bag_difference, available_bag) ==
  bag_difference > 0 /\ bag_difference >= available_bag

\* update_booking: bag_difference > 0 and bag_difference > service.available_bag
update_exceeds(bag_difference, available_bag) ==
  bag_difference > 0 /\ bag_difference > available_bag

\* Variant: capacity returned whatever the stored status is.
returns_capacity_from_any(stored, requested) == requested = Some("cancelled")

\* update_booking_status: booking.confirm == "pending" and
\* body.confirm == "cancelled"
returns_capacity(stored, requested) ==
  stored = "pending" /\ requested = Some("cancelled")

\* "service is None", "booking is None" on what Database.get returned: the
\* document or False, neither of which is None.
is_None(found) == FALSE

\* ------------------------------------------------------ service handlers
create_service(db, current_user, payload) ==
  LET id == db.nextService + 1
      body == set_creator(payload, current_user)
      result == Database_save_result(id)
      saved == [db EXCEPT !.services = Database_save(@, id, body),
                          !.nextService = id]
  IN IF result = Null
       THEN Reply(saved, 500, "An error occurred while saving the service")
       ELSE Reply(saved, 200, "Service created successfully")

update_service(db, current_user, service_id, body) ==
  LET service == Database_get(db.services, service_id)
  IN IF is_None(service)
       THEN Reply(db, 404, "Service with the given service_id not found")
     ELSE IF service = Null
       \* False.creator
       THEN Reply(db, 500, Unhandled)
     ELSE IF not_owner(service[1], current_user)
       THEN Reply(db, 400, "Operation not allowed")
     ELSE Reply([db EXCEPT !.services = Database_update(@, service_id, body)],
                200, "updated_service")

delete_service(db, current_user, service_id) ==
  LET service == Database_get(db.services, service_id)
  IN IF service = Null
       THEN Reply(db, 404, "Service with supplied ID does not exist")
     ELSE IF not_owner(service[1], current_user)
       THEN Reply(db, 404, "Service deletion not allowed")
     ELSE Reply([db EXCEPT !.services = Database_delete(@, service_id)],
                200, "Service deleted successfully")

\* ------------------------------------------------------ booking handlers
\* create_booking runs in three stretches, each up to its next await on the
\* database: the read of the service, the checks and the insert of the
\* booking, and the write of the service.

\* service = await service_database.get(body.service)
create_booking_get(db, body) == Database_get(db.services, body.service)

\* The two checks and booking_database.save(body); code 0: still running.
create_booking_save(db, body, service) ==
  IF service = Null
    THEN Reply(db, 404, "Service with supplied ID does not exist")
  ELSE IF capacity_exceeded(body.booking_bag, service[1].available_bag)
    THEN Reply(db, 400, "Exceeds the available bags for this service")
  ELSE LET id == db.nextBooking + 1
       IN Reply([db EXCEPT !.bookings = Database_save(@, id, body),
                           !.nextBooking = id], 0, "")

\* From the return of save to the end, for the booking inserted as id.
create_booking_update(db, body, service, id) ==
  LET result == Database_save_result(id)
  IN IF result = Null \/ service[1].bookings = Null
       \* result.id, service.bookings.append: attribute of None
       THEN Reply(db, 500, Unhandled)
       ELSE
         LET changed ==
               [service[1] EXCEPT
                  !.available_bag = @ - body.booking_bag,
                  !.bookings = Some(Append(@[1], result[1]))]
         IN Reply([db EXCEPT !.services = Database_update(
                     @, body.service, model_dump(changed))],
                  200, "Booking created successfully")

create_booking(db, current_user, payload) ==
  LET body == set_creator(payload, current_user)
      service == create_booking_get(db, body)
      saved == create_booking_save(db, body, service)
  IN IF saved.code # 0
       THEN saved
       ELSE create_booking_update(saved.db, body, service, saved.db.nextBooking)

\* update_booking, delete_booking_bag and update_booking_status each run in
\* four stretches, one to each await on the database: the read of the
\* booking, the read of its service, the write of the service and the write
\* of the booking.

\* What the checks of a stretch give: the status code and detail of the
\* HTTPException raised, or code 0 (still running) and the service to write.
Stretch(code, detail, service) ==
  [code |-> code, detail |-> detail, service |-> service]

\* await service_database.update(service.id, service)
write_service(db, booking, service) ==
  [db EXCEPT !.services =
     Database_update(@, booking.service, model_dump(service))]

\* From the return of booking_database.get to service_database.get.
update_booking_found(booking, current_user) ==
  IF is_None(booking)
    THEN Stretch(404, "Booking with the given booking_id not found", Null)
  ELSE IF booking = Null
    \* False.creator
    THEN Stretch(500, Unhandled, Null)
  ELSE IF not_owner(booking[1], current_user)
    THEN Stretch(400, "Operation not allowed", Null)
  ELSE Stretch(0, "", Null)

\* From the return of service_database.get to service_database.update.
update_booking_adjust(booking, service, body) ==
  IF service = Null
    THEN Stretch(404, "Service with supplied ID does not exist.", Null)
  ELSE IF body.booking_bag = Null
    \* None - int
    THEN Stretch(500, Unhandled, Null)
  ELSE
    LET bag_difference == body.booking_bag[1] - booking.booking_bag
    IN IF update_exceeds(bag_difference, service[1].available_bag)
         THEN Stretch(400, "The update exceeds available bags in the service.",
                      Null)
         ELSE Stretch(0, "", Some([service[1] EXCEPT
                                     !.available_bag = @ - bag_difference]))

\* booking_database.update(booking_id, body) and the reply.
update_booking_write(db, booking_id, body) ==
  IF Database_update_result(db.bookings, booking_id, body) = Null
    THEN Reply(db, 404, "The booking was not updated.")
    ELSE Reply([db EXCEPT !.bookings = Database_update(@, booking_id, body)],
               200, "Booking has been successfully updated")

update_booking(db, current_user, booking_id, body) ==
  LET booking == Database_get(db.bookings, booking_id)
      found == update_booking_found(booking, current_user)
  IN IF found.code # 0
       THEN Reply(db, found.code, found.detail)
       ELSE
         LET service == Database_get(db.services, booking[1].service)
             adjust == update_booking_adjust(booking[1], service, body)
         IN IF adjust.code # 0
              THEN Reply(db, adjust.code, adjust.detail)
              ELSE update_booking_write(
                     write_service(db, booking[1], adjust.service[1]),
                     booking_id, body)

\* From the return of booking_database.get to service_database.get.
delete_booking_bag_found(booking, current_user) ==
  IF booking = Null
    THEN Stretch(404, "Booking with supplied ID does not exist", Null)
  ELSE IF not_owner(booking[1], current_user)
    THEN Stretch(400, "Booking deletion not allowed", Null)
  ELSE Stretch(0, "", Null)

\* From the return of service_database.get to service_database.update.
delete_booking_bag_adjust(booking, service) ==
  IF service = Null
    \* False.available_bag
    THEN Stretch(500, Unhandled, Null)
    ELSE Stretch(0, "", Some([service[1] EXCEPT
                                !.available_bag = @ + booking.booking_bag]))

\* booking_database.delete(booking_id) and the reply.
delete_booking_bag_write(db, booking_id) ==
  Reply([db EXCEPT !.bookings = Database_delete(@, booking_id)],
        200, "Booking deleted successfully")

delete_booking_bag(db, current_user, booking_id) ==
  LET booking == Database_get(db.bookings, booking_id)
      found == delete_booking_bag_found(booking, current_user)
  IN IF found.code # 0
       THEN Reply(db, found.code, found.detail)
       ELSE
         LET service == Database_get(db.services, booking[1].service)
             adjust == delete_booking_bag_adjust(booking[1], service)
         IN IF adjust.code # 0
              THEN Reply(db, adjust.code, adjust.detail)
              ELSE delete_booking_bag_write(
                     write_service(db, booking[1], adjust.service[1]),
                     booking_id)

\* From the return of booking_database.get to service_database.get.
update_booking_status_found(booking, current_user) ==
  IF booking = Null
    \* False.creator
    THEN Stretch(500, Unhandled, Null)
  ELSE IF not_owner(booking[1], current_user)
    THEN Stretch(400, "Operation not allowed", Null)
  ELSE Stretch(0, "", Null)

\* From the return of service_database.get to service_database.update.
update_booking_status_adjust(booking, service, body) ==
  IF service = Null
    THEN Stretch(404, "Service with supplied ID does not exist", Null)
  ELSE IF returns_capacity(booking.confirm, body.confirm)
    THEN Stretch(0, "", Some([service[1] EXCEPT
                                !.available_bag = @ + booking.booking_bag]))
  ELSE Stretch(0, "", service)

\* booking_database.update(booking_id, body) and the reply.
update_booking_status_write(db, booking_id, body) ==
  IF Database_update_result(db.bookings, booking_id, body) = Null
    THEN Reply(db, 404, "The booking status was not updated.")
    ELSE Reply([db EXCEPT !.bookings = Database_update(@, booking_id, body)],
               200, "Booking status updated")

update_booking_status(db, current_user, booking_id, body) ==
  LET booking == Database_get(db.bookings, booking_id)
      found == update_booking_status_found(booking, current_user)
  IN IF found.code # 0
       THEN Reply(db, found.code, found.detail)
       ELSE
         LET service == Database_get(db.services, booking[1].service)
             adjust == update_booking_status_adjust(booking[1], service, body)
         IN IF adjust.code # 0
              THEN Reply(db, adjust.code, adjust.detail)
              ELSE update_booking_status_write(
                     write_service(db, booking[1], adjust.service[1]),
                     booking_id, body)

\* ------------------------------------------------------------ requests
ServiceBodies ==
  [creator : Emails, service_name : {"cafe"}, available_bag : CapValues,
   total_available_bag : {MaxBag}, bookings : {Null, Some(<<>>)}]

ServiceUpdates ==
  [service_name : {Null}, available_bag : Opt({0}),
   total_available_bag : {Null}]

BookingBodies ==
  [creator : Emails, booking_date : {"d1"}, booking_bag : BagValues,
   confirm : Statuses, service : ServiceIds]

\* A change of quantity, or a change of date alone.
BookingUpdates ==
  [booking_date : {Null}, booking_bag : Opt(BagValues)]
    \cup [booking_date : {Some("d2")}, booking_bag : {Null}]

BookingConfirmUpdates == [confirm : Opt(Statuses)]

\* The model follows available_bag between these two values.
InRange(n) == -1 <= n /\ n <= 2 * MaxBag

\* The database a handler leaves becomes the state.
Write(db) ==
  /\ db.nextService <= MaxServices
  /\ db.nextBooking <= MaxBookings
  /\ \A s \in DOMAIN db.services : InRange(db.services[s].available_bag)
  /\ services' = db.services
  /\ bookings' = db.bookings
  /\ nextService' = db.nextService
  /\ nextBooking' = db.nextBooking
  /\ UNCHANGED uservars

\* A request handled from start to end with no other request in between.
Commit(db) == Write(db) /\ UNCHANGED reqs

Idle ==
  [pc |-> "idle", op |-> "", body |-> Null, booking |-> Null,
   service |-> Null, id |-> 0, code |-> 0]

EmptyDB ==
  [services |-> <<>>, bookings |-> <<>>, nextService |-> 0, nextBooking |-> 0]

SignupIdle ==
  [pc |-> "idle", kind |-> "", body |-> Null, exist |-> Null, code |-> 0]

\* No Host, no Client, no token issued, no signup in flight.
NoUsers ==
  /\ hosts = <<>>
  /\ clients = <<>>
  /\ nextId = 0
  /\ now = 0
  /\ issued = {}
  /\ signups = [r \in Requests |-> SignupIdle]

\* ---------------------------------------------------------------- Init
Init ==
  /\ services = <<>>
  /\ bookings = <<>>
  /\ nextService = 0
  /\ nextBooking = 0
  /\ pristine = {}
  /\ reqs = [r \in Requests |-> Idle]
  /\ NoUsers

\* ------------------------------------------------------------- actions
PostService ==
  \E h \in Emails, body \in ServiceBodies :
    /\ Commit(create_service(DB, h, body).db)
    /\ pristine' = IF body.available_bag = body.total_available_bag
                     THEN pristine \cup {nextService + 1}
                     ELSE pristine

PutService ==
  \E h \in Emails, s \in ServiceIds, body \in ServiceUpdates :
    LET r == update_service(DB, h, s, body)
    IN /\ Commit(r.db)
       /\ pristine' = IF r.code = 200 THEN pristine \ {s} ELSE pristine

DeleteService ==
  \E h \in Emails, s \in ServiceIds :
    /\ Commit(delete_service(DB, h, s).db)
    /\ UNCHANGED pristine

PostBooking ==
  \E c \in Emails, body \in BookingBodies :
    /\ Commit(create_booking(DB, c, body).db)
    /\ UNCHANGED pristine

PutBooking ==
  \E c \in Emails, b \in BookingIds, body \in BookingUpdates :
    /\ Commit(update_booking(DB, c, b, body).db)
    /\ UNCHANGED pristine

DeleteBooking ==
  \E c \in Emails, b \in BookingIds :
    /\ Commit(delete_booking_bag(DB, c, b).db)
    /\ UNCHANGED pristine

PutBookingStatus ==
  \E h \in Emails, b \in BookingIds, body \in BookingConfirmUpdates :
    /\ Commit(update_booking_status(DB, h, b, body).db)
    /\ UNCHANGED pristine

Next ==
  \/ PostService
  \/ PutService
  \/ DeleteService
  \/ PostBooking
  \/ PutBooking
  \/ DeleteBooking
  \/ PutBookingStatus

Spec == Init /\ [][Next]_vars

\* Services are created and then left to the booking requests: no Host
\* updates or deletes a service.
NextBookings ==
  \/ PostService
  \/ PostBooking
  \/ PutBooking
  \/ DeleteBooking
  \/ PutBookingStatus

SpecBookings == Init /\ [][NextBookings]_vars

\* ------------------------------------------- concurrent create_booking
\* Requests are coroutines on one event loop: a handler runs alone from one
\* await on the database to the next, and other requests run in between.
ConcBookingBodies ==
  [creator : {"a@x.io"}, booking_date : {"d1"}, booking_bag : BagValues,
   confirm : {"pending"}, service : ServiceIds]

\* One service has been created; no booking yet.
InitConc ==
  \E h \in Emails, body \in ServiceBodies :
    LET db == create_service(EmptyDB, h, body).db
    IN /\ services = db.services
       /\ bookings = db.bookings
       /\ nextService = db.nextService
       /\ nextBooking = db.nextBooking
       /\ pristine = IF body.available_bag = body.total_available_bag
                       THEN {db.nextService} ELSE {}
       /\ reqs = [r \in Requests |-> Idle]
       /\ NoUsers

CreateBookingRead(r) ==
  /\ reqs[r].pc = "idle"
  /\ \E c \in Emails, payload \in ConcBookingBodies :
       LET body == set_creator(payload, c)
       IN reqs' = [reqs EXCEPT ![r] =
                     [pc |-> "read", op |-> "create", body |-> Some(body),
                      booking |-> Null,
                      service |-> create_booking_get(DB, body),
                      id |-> 0, code |-> 0]]
  /\ UNCHANGED <<services, bookings, nextService, nextBooking, pristine>>
  /\ UNCHANGED uservars

CreateBookingSave(r) ==
  /\ reqs[r].pc = "read"
  /\ LET rep == create_booking_save(DB, reqs[r].body[1], reqs[r].service)
     IN /\ Write(rep.db)
        /\ reqs' = [reqs EXCEPT ![r] =
                      IF rep.code # 0
                        THEN [@ EXCEPT !.pc = "done", !.code = rep.code]
                        ELSE [@ EXCEPT !.pc = "saved",
                                       !.id = rep.db.nextBooking]]
  /\ UNCHANGED pristine

CreateBookingWrite(r) ==
  /\ reqs[r].pc = "saved"
  /\ LET rep == create_booking_update(DB, reqs[r].body[1], reqs[r].service,
                                      reqs[r].id)
     IN /\ Write(rep.db)
        /\ reqs' = [reqs EXCEPT ![r] = [@ EXCEPT !.pc = "done",
                                                 !.code = rep.code]]
  /\ UNCHANGED pristine

NextConc ==
  \E r \in Requests :
    \/ CreateBookingRead(r)
    \/ CreateBookingSave(r)
    \/ CreateBookingWrite(r)

SpecConc == InitConc /\ [][NextConc]_vars

\* ------------------------------------------ concurrent booking requests
\* The handlers that read a booking and its service and write both.
Ops == {"update", "delete", "status"}

\* The bodies of the requests of each handler: a new quantity, a new
\* status; DELETE has none.
RaceBodies(op) ==
  IF op = "update"
    THEN {Some([booking_date |-> Null, booking_bag |-> Some(n)]) :
            n \in 1..MaxBag}
  ELSE IF op = "status"
    THEN {Some([confirm |-> Some(c)]) : c \in {"confirmed", "cancelled"}}
  ELSE {Null}

\* Variant: the update schema with the creator among its fields.
ServiceDetails_with_creator ==
  [creator : {Some(e) : e \in Emails}, service_name : {Some("bar")},
   available_bag : {Null}, total_available_bag : {Null}]

\* A Host's change of a field that no booking request is about.
ServiceDetails ==
  [service_name : {Some("bar")}, available_bag : {Null},
   total_available_bag : {Null}]

\* The stretches of the handler a request is in.
booking_found(op, booking, current_user) ==
  IF op = "update" THEN update_booking_found(booking, current_user)
  ELSE IF op = "delete" THEN delete_booking_bag_found(booking, current_user)
  ELSE update_booking_status_found(booking, current_user)

booking_adjust(op, booking, service, body) ==
  IF op = "update" THEN update_booking_adjust(booking, service, body[1])
  ELSE IF op = "delete" THEN delete_booking_bag_adjust(booking, service)
  ELSE update_booking_status_adjust(booking, service, body[1])

booking_write(op, db, booking_id, body) ==
  IF op = "update" THEN update_booking_write(db, booking_id, body[1])
  ELSE IF op = "delete" THEN delete_booking_bag_write(db, booking_id)
  ELSE update_booking_status_write(db, booking_id, body[1])

\* A coroutine that has answered is idle again and takes the next request.
BookingRead(r) ==
  /\ reqs[r].pc = "idle"
  /\ \E op \in Ops, c \in Emails, b \in BookingIds :
       \E body \in RaceBodies(op) :
         LET booking == Database_get(bookings, b)
             found == booking_found(op, booking, c)
         IN reqs' = [reqs EXCEPT ![r] =
                       IF found.code # 0
                         THEN Idle
                         ELSE [pc |-> "found", op |-> op, body |-> body,
                               booking |-> booking, service |-> Null,
                               id |-> b, code |-> 0]]
  /\ UNCHANGED <<services, bookings, nextService, nextBooking, pristine>>
  /\ UNCHANGED uservars

ServiceRead(r) ==
  /\ reqs[r].pc = "found"
  /\ LET service == Database_get(services, reqs[r].booking[1].service)
         adjust == booking_adjust(reqs[r].op, reqs[r].booking[1], service,
                                  reqs[r].body)
     IN reqs' = [reqs EXCEPT ![r] =
                   IF adjust.code # 0
                     THEN Idle
                     ELSE [@ EXCEPT !.pc = "adjusted",
                                    !.service = adjust.service]]
  /\ UNCHANGED <<services, bookings, nextService, nextBooking, pristine>>
  /\ UNCHANGED uservars

ServiceWrite(r) ==
  /\ reqs[r].pc = "adjusted"
  /\ Write(write_service(DB, reqs[r].booking[1], reqs[r].service[1]))
  /\ reqs' = [reqs EXCEPT ![r] = [@ EXCEPT !.pc = "written"]]
  /\ UNCHANGED pristine

BookingWrite(r) ==
  /\ reqs[r].pc = "written"
  /\ LET rep == booking_write(reqs[r].op, DB, reqs[r].id, reqs[r].body)
     IN /\ Write(rep.db)
        /\ reqs' = [reqs EXCEPT ![r] = Idle]
  /\ UNCHANGED pristine

PutServiceDetails ==
  \E h \in Emails, s \in ServiceIds, body \in ServiceDetails :
    LET r == update_service(DB, h, s, body)
    IN /\ Commit(r.db)
       /\ pristine' = IF r.code = 200 THEN pristine \ {s} ELSE pristine

NextRace ==
  \/ PutServiceDetails
  \/ \E r \in Requests :
       \/ CreateBookingRead(r)
       \/ CreateBookingSave(r)
       \/ CreateBookingWrite(r)
       \/ BookingRead(r)
       \/ ServiceRead(r)
       \/ ServiceWrite(r)
       \/ BookingWrite(r)

\* One service has been created.  A coroutine that has handled a
\* create_booking handles no further request, so with MaxRequests coroutines
\* and a booking stored, MaxRequests - 1 of the other booking requests are in
\* flight at once, next to the Host's updates and further creates.
SpecRace == InitConc /\ [][NextRace]_vars

\* ==================================================== hosts and clients
Kinds == {"host", "client"}

\* The passwords requests carry.
Plaintexts == {"", "pw", "new"}

\* ------------------------------------------------------- HashPassword
\* pwd_context.hash: a bcrypt digest of the password, "$2b$..." (the salt
\* bcrypt draws is left out of the digest).
create_hash(password) == "$2b$" \o password

\* The strings that are digests.
Digests == {"$2b$" \o p : p \in Plaintexts}

\* pwd_context.verify: whether the digest is of this password; None here is
\* the exception passlib raises for a string that is no digest.
verify_hash(plain_password, hashed_password) ==
  IF hashed_password \notin Digests
    THEN Null
    ELSE Some(hashed_password = "$2b$" \o plain_password)

\* ------------------------------------------------------ the collections
\* The Host and Client collections as the handlers see them.  Ids are
\* ObjectIds: no two documents share one, whatever their collection.
UDB == [hosts |-> hosts, clients |-> clients, nextId |-> nextId]

\* Model.find_one(Model.email == email): the id of the first document with
\* that email, or None.
find_one(coll, email) ==
  LET ids == {i \in DOMAIN coll : coll[i].email = email}
  IN IF ids = {}
       THEN Null
       ELSE Some(CHOOSE i \in ids : \A j \in ids : i <= j)

\* ------------------------------------------------------- user handlers
\* if host_exist: / if client_exist:
email_taken(exist) == exist # Null

\* sign_new_host_up runs in two stretches: the lookup by email, and from
\* its return to the end.
sign_new_host_up_find(udb, current_user) ==
  find_one(udb.hosts, current_user.email)

sign_new_host_up_save(udb, current_user, host_exist) ==
  IF email_taken(host_exist)
    THEN Reply(udb, 409, "Host with the email provided already exists")
    ELSE
      LET id == udb.nextId + 1
          doc == [current_user EXCEPT !.password = create_hash(@)]
          result == Database_save_result(id)
          saved == [udb EXCEPT !.hosts = Database_save(@, id, doc),
                               !.nextId = id]
      IN IF result = Null
           \* result.dict: attribute of None
           THEN Reply(saved, 500, Unhandled)
           ELSE Reply(saved, 200, "Host created successfully.")

sign_new_host_up(udb, current_user) ==
  sign_new_host_up_save(udb, current_user,
                        sign_new_host_up_find(udb, current_user))

sign_new_client_up_find(udb, current_user) ==
  find_one(udb.clients, current_user.email)

sign_new_client_up_save(udb, current_user, client_exist) ==
  IF email_taken(client_exist)
    THEN Reply(udb, 409, "Client with the email provided already exists")
    ELSE
      LET id == udb.nextId + 1
          doc == [current_user EXCEPT !.password = create_hash(@)]
          result == Database_save_result(id)
          saved == [udb EXCEPT !.clients = Database_save(@, id, doc),
                               !.nextId = id]
      IN IF result = Null
           \* result.dict: attribute of None
           THEN Reply(saved, 500, Unhandled)
           ELSE Reply(saved, 200, "Client created successfully.")

sign_new_client_up(udb, current_user) ==
  sign_new_client_up_save(udb, current_user,
                          sign_new_client_up_find(udb, current_user))

\* if body.password: a password that is neither None nor empty is hashed.
hash_if_given(body) ==
  IF body.password # Null /\ body.password[1] # ""
    THEN [body EXCEPT !.password = Some(create_hash(@[1]))]
    ELSE body

update_host(udb, host_id, body) ==
  IF host_id \notin DOMAIN udb.hosts
    THEN Reply(udb, 404, "No Host update has been made")
    ELSE Reply([udb EXCEPT !.hosts =
                  Database_update(@, host_id, hash_if_given(body))],
               200, "updated_host")

update_client(udb, client_id, body) ==
  IF client_id \notin DOMAIN udb.clients
    THEN Reply(udb, 404, "No Client update has been made")
    ELSE Reply([udb EXCEPT !.clients =
                  Database_update(@, client_id, hash_if_given(body))],
               200, "updated_client")

delete_host(udb, host_id) ==
  Reply([udb EXCEPT !.hosts = Database_delete(@, host_id)],
        200, "Host deleted successfully.")

delete_client(udb, client_id) ==
  Reply([udb EXCEPT !.clients = Database_delete(@, client_id)],
        200, "Client deleted successfully.")

\* ---------------------------------------------------------- jwt_handler
\* Seconds an access token lives.
AccessLifetime == 3600

\* Seconds a refresh token lives.
RefreshLifetime == 3600 * 24 * 7

\* A token is its payload and whether its signature is the one
\* settings.SECRET_KEY gives: jwt.encode signs, and only jwt.encode does.
Token(user, expires, signed) ==
  [payload |-> [user |-> user, expires |-> expires], signed |-> signed]

create_access_token(user, time) == Token(user, time + AccessLifetime, TRUE)

create_refresh_token(user, time) == Token(user, time + RefreshLifetime, TRUE)

\* jwt.decode: the payload, or None for the JWTError of a token whose
\* signature or structure is wrong.
jwt_decode(token) == IF token.signed THEN Some(token.payload) ELSE Null

\* dict.get
dict_get(data, key) == IF key \in DOMAIN data THEN Some(data[key]) ELSE Null

\* What a verify function gives: the decoded payload with code 200, or the
\* status code and detail of the HTTPException it raises.
Verdict(code, detail, data) == [code |-> code, detail |-> detail, data |-> data]

\* Variant: no token ever expires.
expired_never(time, expire) == FALSE

\* datetime.utcnow() > datetime.utcfromtimestamp(expire)
expired(time, expire) == time > expire

\* Variant: the subject of the token is not looked up.
verify_token_no_lookup(coll, time, token, none, late, absent) ==
  LET data == jwt_decode(token)
  IN IF data = Null
       THEN Verdict(400, "Invalid JWTError refresh token", Null)
     ELSE IF expired(time, data[1].expires)
       THEN Verdict(403, late, Null)
     ELSE Verdict(200, "", data)

\* The body the four verify functions share, over the collection each one
\* queries and with the details each one raises.
verify_token(coll, time, token, none_detail, expired_detail, absent_detail) ==
  LET data == jwt_decode(token)
  IN IF data = Null
       THEN Verdict(400, "Invalid JWTError refresh token", Null)
     ELSE LET expire == dict_get(data[1], "expires")
          IN IF expire = Null
               THEN Verdict(400, none_detail, Null)
             ELSE IF expired(time, expire[1])
               THEN Verdict(403, expired_detail, Null)
             ELSE IF find_one(coll, data[1].user) = Null
               THEN Verdict(400, absent_detail, Null)
             ELSE Verdict(200, "", data)

\* Variant: the Host verify function that accepts a Client's subject too.
verify_host_access_token_any_kind(udb, time, token) ==
  LET v == verify_token(udb.hosts, time, token, "No access token supplied",
                        "Refresh token expired", "Invalid access token")
  IN IF v.code = 400 /\ v.detail = "Invalid access token"
       THEN verify_token(udb.clients, time, token, "No access token supplied",
                         "Refresh token expired", "Invalid access token")
       ELSE v

verify_host_access_token(udb, time, token) ==
  verify_token(udb.hosts, time, token, "No access token supplied",
               "Refresh token expired", "Invalid access token")

verify_client_access_token(udb, time, token) ==
  verify_token(udb.clients, time, token, "No access token supplied",
               "Refresh token expired", "Invalid access token")

verify_host_refresh_token(udb, time, token) ==
  verify_token(udb.hosts, time, token, "No refresh token supplied",
               "Refresh token expired!", "Invalid refresh token")

verify_client_refresh_token(udb, time, token) ==
  verify_token(udb.clients, time, token, "No refresh token supplied",
               "Refresh token expired!", "Invalid refresh token")

\* -------------------------------------------------------- authenticate
\* authenticate imports verify_access_token and verify_refresh_token from
\* auth.jwt_handler, which defines neither: they are taken to be the verify
\* functions of the principal kind the request names, the second returning
\* a new access token for the subject of the refresh token.
verify_access_token(udb, time, token, user_type) ==
  IF user_type = "host"
    THEN verify_host_access_token(udb, time, token)
    ELSE verify_client_access_token(udb, time, token)

verify_refresh_token(udb, time, token, user_type) ==
  LET v == IF user_type = "host"
             THEN verify_host_refresh_token(udb, time, token)
             ELSE verify_client_refresh_token(udb, time, token)
  IN [code |-> v.code, detail |-> v.detail,
      token |-> IF v.code = 200
                  THEN Some(create_access_token(v.data[1].user, time))
                  ELSE Null]

\* What the dependency gives: the user id with code 200, or the 403 it
\* raises; refreshed: whether it called verify_refresh_token.
Authenticated(code, detail, user_id, refreshed) ==
  [code |-> code, detail |-> detail, user_id |-> user_id,
   refreshed |-> refreshed]

authenticate(udb, time, access_token, refresh_token, user_type) ==
  IF access_token = Null
    THEN Authenticated(403, "Sign in for access", Null, FALSE)
  ELSE IF user_type \notin {Some("host"), Some("client")}
    THEN Authenticated(403, "Invalid user type for access", Null, FALSE)
  ELSE
    LET user_id_key == IF user_type = Some("host")
                         THEN "host_id" ELSE "client_id"
        first == verify_access_token(udb, time, access_token[1], user_type[1])
    IN IF first.code # 200 /\ refresh_token = Null
         THEN Authenticated(403, "Invalid access token", Null, FALSE)
       ELSE
         \* if not decoded_access_token: the refresh step
         LET refreshed == first.code # 200
             new == verify_refresh_token(udb, time, refresh_token[1],
                                         user_type[1])
             second == verify_access_token(udb, time, new.token[1],
                                           user_type[1])
         IN IF refreshed /\ (new.code # 200 \/ second.code # 200)
              THEN Authenticated(403, "Invalid refresh token", Null, TRUE)
              ELSE
                LET decoded_access_token ==
                      IF refreshed THEN second.data[1] ELSE first.data[1]
                    user_id == dict_get(decoded_access_token, user_id_key)
                IN IF user_id = Null
                     THEN Authenticated(
                            403, "Invalid " \o user_type[1] \o " token",
                            Null, refreshed)
                     ELSE Authenticated(200, "", user_id, refreshed)

\* ------------------------------------------------------------- signin
\* What a signin gives: the status code, the detail, and the access and
\* refresh tokens of a 200.
TokenResponse(code, detail, tokens) ==
  [code |-> code, detail |-> detail, tokens |-> tokens]

sign_host_in(udb, time, username, password) ==
  LET host_exist == find_one(udb.hosts, username)
  IN IF host_exist = Null
       THEN TokenResponse(404, "Host with email does not exist.", <<>>)
     ELSE LET host == udb.hosts[host_exist[1]]
              matches == verify_hash(password, host.password)
          IN IF matches = Null
               THEN TokenResponse(500, Unhandled, <<>>)
             ELSE IF matches[1]
               THEN TokenResponse(200, "Bearer ",
                      <<create_access_token(host.email, time),
                        create_refresh_token(host.email, time)>>)
             ELSE TokenResponse(401, "Invalid details passed for Host signin",
                                <<>>)

sign_client_in(udb, time, username, password) ==
  LET client_exist == find_one(udb.clients, username)
  IN IF client_exist = Null
       THEN TokenResponse(404, "Client with email does not exist.", <<>>)
     ELSE LET client == udb.clients[client_exist[1]]
              matches == verify_hash(password, client.password)
          IN IF matches = Null
               THEN TokenResponse(500, Unhandled, <<>>)
             ELSE IF matches[1]
               THEN TokenResponse(200, "Bearer ",
                      <<create_access_token(client.email, time),
                        create_refresh_token(client.email, time)>>)
             ELSE TokenResponse(401,
                    "Invalid details passed for Client signin", <<>>)

\* (await decoded_refresh_token)["user"] == host.username
subject_matches(data, username) == data.user = username

\* ------------------------------------------------------ refresh-token
\* The form's password field carries the refresh token.  The HTTPException
\* that verify_host_refresh_token raises is no JWTError: it passes the
\* except clause of the route and is the reply.
refresh_host_access_token(udb, time, username, password) ==
  LET host_exist == find_one(udb.hosts, username)
  IN IF host_exist = Null
       THEN TokenResponse(404, "Host with the email does not exist.", <<>>)
     ELSE LET host == udb.hosts[host_exist[1]]
              decoded_refresh_token ==
                verify_host_refresh_token(udb, time, password)
          IN IF decoded_refresh_token.code # 200
               THEN TokenResponse(decoded_refresh_token.code,
                                  decoded_refresh_token.detail, <<>>)
             ELSE IF subject_matches(decoded_refresh_token.data[1], username)
               THEN TokenResponse(200, "Bearer ",
                      <<create_access_token(host.email, time),
                        create_refresh_token(host.email, time)>>)
             ELSE TokenResponse(401, "Invalid host email passed", <<>>)

refresh_client_access_token(udb, time, username, password) ==
  LET client_exist == find_one(udb.clients, username)
  IN IF client_exist = Null
       THEN TokenResponse(404, "Client with email does not exist.", <<>>)
     ELSE LET client == udb.clients[client_exist[1]]
              decoded_refresh_token ==
                verify_client_refresh_token(udb, time, password)
          IN IF decoded_refresh_token.code # 200
               THEN TokenResponse(decoded_refresh_token.code,
                                  decoded_refresh_token.detail, <<>>)
             ELSE IF subject_matches(decoded_refresh_token.data[1], username)
               THEN TokenResponse(200, "Bearer ",
                      <<create_access_token(client.email, time),
                        create_refresh_token(client.email, time)>>)
             ELSE TokenResponse(401, "Invalid client email passed", <<>>)

\* ------------------------------------------------------- user requests
HostBodies == [email : Emails, password : {"pw"}, host_name : {"host"}]

ClientBodies == [email : Emails, password : {"pw"}, client_name : {"client"}]

HostUpdates == [password : Opt({"", "new"}), host_name : {Null}]

ClientUpdates == [password : Opt({"", "new"}), client_name : {Null}]

\* The collections a handler leaves become the state.
WriteUsers(udb) ==
  /\ udb.nextId <= MaxPrincipals
  /\ hosts' = udb.hosts
  /\ clients' = udb.clients
  /\ nextId' = udb.nextId
  /\ UNCHANGED resvars

\* A request handled from start to end with no other request in between.
CommitUsers(udb) == WriteUsers(udb) /\ UNCHANGED <<now, issued, signups>>

\* The tokens of a reply, each with the kind of its route and its use.
Returned(kind, reply) ==
  {[kind |-> kind, use |-> IF i = 1 THEN "access" ELSE "refresh",
    token |-> reply.tokens[i]] : i \in DOMAIN reply.tokens}

\* The tokens of a signin's reply join the tokens issued so far.
Issue(kind, reply) ==
  /\ issued' = issued \cup Returned(kind, reply)
  /\ Cardinality(issued') <= 2 * MaxSignins
  /\ UNCHANGED <<hosts, clients, nextId, now, signups>>
  /\ UNCHANGED resvars

\* The tokens of a refresh-token reply join them too.
Reissue(kind, reply) ==
  /\ issued' = issued \cup Returned(kind, reply)
  /\ Cardinality(issued') <= 2 * (MaxSignins + MaxRefreshes)
  /\ UNCHANGED <<hosts, clients, nextId, now, signups>>
  /\ UNCHANGED resvars

\* The tokens a request may carry: a token that was issued, or one with its
\* payload and a wrong signature.
Presented ==
  {i.token : i \in issued}
    \cup {[i.token EXCEPT !.signed = FALSE] : i \in issued}

\* The longest step of the clock: an access token issued before it has
\* expired after it, a refresh token has not.
TickSize == AccessLifetime + 1

\* ------------------------------------------------------- user actions
PostHostSignup ==
  \E body \in HostBodies : CommitUsers(sign_new_host_up(UDB, body).db)

PostClientSignup ==
  \E body \in ClientBodies : CommitUsers(sign_new_client_up(UDB, body).db)

PostHostSignin ==
  \E username \in Emails, password \in Plaintexts :
    Issue("host", sign_host_in(UDB, now, username, password))

PostClientSignin ==
  \E username \in Emails, password \in Plaintexts :
    Issue("client", sign_client_in(UDB, now, username, password))

PostHostRefresh ==
  \E username \in Emails, password \in Presented :
    Reissue("host", refresh_host_access_token(UDB, now, username, password))

PostClientRefresh ==
  \E username \in Emails, password \in Presented :
    Reissue("client",
            refresh_client_access_token(UDB, now, username, password))

\* The principal of PUT and DELETE is a stored Host (Client): the one the
\* auth dependency resolved.
PutHost ==
  \E id \in DOMAIN hosts, body \in HostUpdates :
    CommitUsers(update_host(UDB, id, body).db)

PutClient ==
  \E id \in DOMAIN clients, body \in ClientUpdates :
    CommitUsers(update_client(UDB, id, body).db)

DeleteHost == \E id \in DOMAIN hosts : CommitUsers(delete_host(UDB, id).db)

DeleteClient ==
  \E id \in DOMAIN clients : CommitUsers(delete_client(UDB, id).db)

Tick ==
  /\ now + TickSize <= MaxTicks * TickSize
  /\ now' = now + TickSize
  /\ UNCHANGED <<hosts, clients, nextId, issued, signups>>
  /\ UNCHANGED resvars

NextUsers ==
  \/ PostHostSignup
  \/ PostClientSignup
  \/ PostHostSignin
  \/ PostClientSignin
  \/ PostHostRefresh
  \/ PostClientRefresh
  \/ PutHost
  \/ PutClient
  \/ DeleteHost
  \/ DeleteClient
  \/ Tick

SpecUsers == Init /\ [][NextUsers]_vars

\* --------------------------------------------------- concurrent signup
\* Signup requests are coroutines on one event loop: each runs alone from
\* its lookup by email to its insert, and other requests run in between.
\* A coroutine that has answered takes the next request.
HostSignupFind(r) ==
  /\ signups[r].pc \in {"idle", "done"}
  /\ \E body \in HostBodies :
       signups' = [signups EXCEPT ![r] =
                     [pc |-> "found", kind |-> "host", body |-> Some(body),
                      exist |-> sign_new_host_up_find(UDB, body),
                      code |-> 0]]
  /\ UNCHANGED <<hosts, clients, nextId, now, issued>>
  /\ UNCHANGED resvars

HostSignupSave(r) ==
  /\ signups[r].pc = "found" /\ signups[r].kind = "host"
  /\ LET rep == sign_new_host_up_save(UDB, signups[r].body[1],
                                      signups[r].exist)
     IN /\ WriteUsers(rep.db)
        /\ signups' = [signups EXCEPT ![r] =
                         [@ EXCEPT !.pc = "done", !.code = rep.code]]
  /\ UNCHANGED <<now, issued>>

ClientSignupFind(r) ==
  /\ signups[r].pc \in {"idle", "done"}
  /\ \E body \in ClientBodies :
       signups' = [signups EXCEPT ![r] =
                     [pc |-> "found", kind |-> "client", body |-> Some(body),
                      exist |-> sign_new_client_up_find(UDB, body),
                      code |-> 0]]
  /\ UNCHANGED <<hosts, clients, nextId, now, issued>>
  /\ UNCHANGED resvars

ClientSignupSave(r) ==
  /\ signups[r].pc = "found" /\ signups[r].kind = "client"
  /\ LET rep == sign_new_client_up_save(UDB, signups[r].body[1],
                                        signups[r].exist)
     IN /\ WriteUsers(rep.db)
        /\ signups' = [signups EXCEPT ![r] =
                         [@ EXCEPT !.pc = "done", !.code = rep.code]]
  /\ UNCHANGED <<now, issued>>

NextSignup ==
  \E r \in Requests :
    \/ HostSignupFind(r)
    \/ HostSignupSave(r)
    \/ ClientSignupFind(r)
    \/ ClientSignupSave(r)

SpecSignup == Init /\ [][NextSignup]_vars

\* =============================================================== claims
\* The bags a service's bookings hold: the sum of booking_bag over its
\* stored bookings that are not cancelled.
RECURSIVE SumBags(_)
SumBags(ids) ==
  IF ids = {} THEN 0
  ELSE LET b == CHOOSE x \in ids : TRUE
       IN bookings[b].booking_bag + SumBags(ids \ {b})

Reserved(s) ==
  SumBags({b \in DOMAIN bookings :
             bookings[b].service = s /\ bookings[b].confirm # "cancelled"})

\* C1: for a service created with available_bag = total_available_bag and
\* reached by booking requests handled one after another, available_bag
\* equals total_available_bag minus the bags of its bookings that are not
\* cancelled (stated here for bookings of one bag or more).
C1_CapacityInvariant ==
  (\A b \in DOMAIN bookings : bookings[b].booking_bag > 0)
    => \A s \in DOMAIN services \cap pristine :
         services[s].available_bag
           = services[s].total_available_bag - Reserved(s)

\* C2: a create_booking that read the service and asked for no more than
\* the available_bag it read has its booking stored, whatever other requests
\* stored between its read and its insert.
C2_PassedIsStored ==
  \A r \in Requests :
    (/\ reqs[r].pc \in {"saved", "done"}
     /\ reqs[r].service # Null
     /\ reqs[r].body[1].booking_bag <= reqs[r].service[1].available_bag)
      => /\ reqs[r].id \in DOMAIN bookings
         /\ bookings[reqs[r].id] = reqs[r].body[1]

\* Two requests in flight at once that read the same service, each asking
\* for some bags within what it read, both stored: the service's bookings
\* hold more bags than were available before either request.
C2_Overdrawn ==
  \E r1, r2 \in Requests :
    /\ r1 # r2
    /\ reqs[r1].pc = "saved" /\ reqs[r2].pc = "saved"
    /\ reqs[r1].service # Null /\ reqs[r1].service = reqs[r2].service
    /\ reqs[r1].body[1].service = reqs[r2].body[1].service
    /\ reqs[r1].body[1].booking_bag > 0 /\ reqs[r2].body[1].booking_bag > 0
    /\ {reqs[r1].id, reqs[r2].id} \subseteq DOMAIN bookings
    /\ Reserved(reqs[r1].body[1].service)
         > reqs[r1].service[1].available_bag

\* C3: a create_booking whose service is missing is answered 404, one that
\* asks for more than available_bag is answered 400, and either leaves the
\* bookings and the services as they were.
C3_RejectedCreate ==
  \A c \in Emails, body \in BookingBodies :
    LET r == create_booking(DB, c, body)
    IN /\ body.service \notin DOMAIN services
            => r.code = 404 /\ r.db = DB
       /\ (/\ body.service \in DOMAIN services
           /\ body.booking_bag > services[body.service].available_bag)
            => r.code = 400 /\ r.db = DB

\* A booking is stored and a request for more bags than are left is refused.
C3_Witness ==
  /\ bookings # <<>>
  /\ \E c \in Emails, body \in BookingBodies :
       /\ body.service \in DOMAIN services
       /\ body.booking_bag > services[body.service].available_bag
       /\ create_booking(DB, c, body).code = 400

\* C4: a create_booking within capacity stores exactly one new booking,
\* lowers the service's available_bag by booking_bag, appends the booking's
\* id to the service's bookings list and answers with the created booking.
C4_AcceptedCreate ==
  \A c \in Emails, body \in BookingBodies :
    (/\ body.service \in DOMAIN services
     /\ services[body.service].bookings # Null
     /\ body.booking_bag <= services[body.service].available_bag)
      => LET r == create_booking(DB, c, body)
             id == r.db.nextBooking
             old == services[body.service]
             new == r.db.services[body.service]
         IN /\ r.code = 200
            /\ DOMAIN r.db.bookings = DOMAIN bookings \cup {id}
            /\ id \notin DOMAIN bookings
            /\ new.available_bag = old.available_bag - body.booking_bag
            /\ new.bookings = Some(Append(old.bookings[1], id))

\* C5: a quantity update by the booking's creator, with the parent service
\* stored and delta = new_bag - old_bag: when delta > 0 and delta >
\* available_bag it is answered 400 and nothing changes; otherwise
\* available_bag goes down by delta and booking_bag becomes new_bag.
C5_QuantityUpdate ==
  \A b \in DOMAIN bookings, body \in BookingUpdates :
    (body.booking_bag # Null /\ bookings[b].service \in DOMAIN services)
      => LET s == bookings[b].service
             delta == body.booking_bag[1] - bookings[b].booking_bag
             r == update_booking(DB, bookings[b].creator, b, body)
         IN IF delta > 0 /\ delta > services[s].available_bag
              THEN r.code = 400 /\ r.db = DB
              ELSE /\ r.db.services[s].available_bag
                        = services[s].available_bag - delta
                   /\ r.db.bookings[b].booking_bag = body.booking_bag[1]

\* The creator raises a booking by exactly the bags that are left.
C5_Witness ==
  \E b \in DOMAIN bookings, body \in BookingUpdates :
    /\ body.booking_bag # Null
    /\ bookings[b].service \in DOMAIN services
    /\ body.booking_bag[1] - bookings[b].booking_bag
         = services[bookings[b].service].available_bag
    /\ services[bookings[b].service].available_bag > 0
    /\ update_booking(DB, bookings[b].creator, b, body).code = 200

\* C6: a delete by the booking's creator raises the parent service's
\* available_bag by booking_bag and removes the booking, so that a booking
\* created and then deleted leaves available_bag as it was before.
C6_CreateThenDelete ==
  \A c \in Emails, body \in BookingBodies :
    (/\ body.service \in DOMAIN services
     /\ body.booking_bag <= services[body.service].available_bag)
      => LET s == body.service
             made == create_booking(DB, c, body)
             id == made.db.nextBooking
             gone == delete_booking_bag(made.db, c, id)
         IN /\ id \in DOMAIN made.db.bookings
            /\ id \notin DOMAIN gone.db.bookings
            /\ gone.db.services[s].available_bag
                 = made.db.services[s].available_bag + body.booking_bag
            /\ gone.db.services[s].available_bag = services[s].available_bag

\* C7: an accepted status transition to a status value raises available_bag
\* by booking_bag when the stored status is "pending" and the requested one
\* "cancelled", leaves it alone for every other pair, and stores the
\* requested status.
C7_StatusTransition ==
  \A h \in Emails, b \in DOMAIN bookings, requested \in Statuses :
    LET r == update_booking_status(DB, h, b, [confirm |-> Some(requested)])
        s == bookings[b].service
    IN r.code = 200
         => /\ r.db.services[s].available_bag
                 = IF bookings[b].confirm = "pending" /\ requested = "cancelled"
                     THEN services[s].available_bag + bookings[b].booking_bag
                     ELSE services[s].available_bag
            /\ r.db.bookings[b].confirm = requested

\* A confirmed booking of some bags is set to "cancelled".
C7_Witness ==
  \E h \in Emails, b \in DOMAIN bookings :
    /\ bookings[b].confirm = "confirmed"
    /\ bookings[b].booking_bag > 0
    /\ update_booking_status(DB, h, b, [confirm |-> Some("cancelled")]).code
         = 200

\* C8: a status transition is accepted when the Host created the booking's
\* parent service, and refused with nothing changed when the Host did not.
C8_StatusByServiceOwner ==
  \A h \in Emails, b \in DOMAIN bookings, requested \in Statuses :
    bookings[b].service \in DOMAIN services
      => LET r == update_booking_status(DB, h, b,
                                        [confirm |-> Some(requested)])
         IN IF services[bookings[b].service].creator = h
              THEN r.code = 200
              ELSE r.code # 200 /\ r.db = DB

\* C9: an update or a delete of a booking by a Client who is not its creator
\* is answered 400 whatever the body, and changes nothing.
C9_OtherClientRefused ==
  \A c \in Emails, b \in DOMAIN bookings :
    c # bookings[b].creator
      => /\ \A body \in BookingUpdates :
              LET r == update_booking(DB, c, b, body)
              IN r.code = 400 /\ r.db = DB
         /\ LET r == delete_booking_bag(DB, c, b)
            IN r.code = 400 /\ r.db = DB

\* A booking whose parent service is stored, and another Client.
C9_Witness ==
  \E c \in Emails, b \in DOMAIN bookings :
    /\ c # bookings[b].creator
    /\ bookings[b].service \in DOMAIN services
    /\ delete_booking_bag(DB, c, b).code = 400

\* C10: a PUT or DELETE of a service by a Host who is not its creator is
\* refused and leaves every service as stored; a PUT or DELETE that changes
\* the services comes from the creator.
C10_OtherHostRefused ==
  \A h \in Emails, s \in DOMAIN services :
    /\ h # services[s].creator
         => /\ \A body \in ServiceUpdates :
                 LET r == update_service(DB, h, s, body)
                 IN r.code = 400 /\ r.db = DB
            /\ LET r == delete_service(DB, h, s)
               IN r.code = 404 /\ r.db = DB
    /\ \A body \in ServiceUpdates :
         update_service(DB, h, s, body).db # DB => h = services[s].creator
    /\ delete_service(DB, h, s).db # DB => h = services[s].creator

\* A service with bags left, which a PUT by its creator changes and a PUT by
\* the other Host does not.
C10_Witness ==
  \E h \in Emails, s \in DOMAIN services, body \in ServiceUpdates :
    /\ h # services[s].creator
    /\ update_service(DB, services[s].creator, s, body).db # DB
    /\ update_service(DB, h, s, body).db = DB

\* C11: the Service that create_service stores has the authenticated Host's
\* email as creator, and the Booking that create_booking stores has the
\* authenticated Client's email as creator, whatever creator the payload
\* carried.
C11_CreatorFromPrincipal ==
  /\ \A h \in Emails, body \in ServiceBodies :
       LET r == create_service(DB, h, body)
       IN \A s \in DOMAIN r.db.services \ DOMAIN services :
            r.db.services[s].creator = h
  /\ \A c \in Emails, body \in BookingBodies :
       LET r == create_booking(DB, c, body)
       IN \A b \in DOMAIN r.db.bookings \ DOMAIN bookings :
            r.db.bookings[b].creator = c

\* A stored service and a stored booking, and requests that carry another
\* creator than their principal and store a service and a booking.
C11_Witness ==
  /\ services # <<>> /\ bookings # <<>>
  /\ \E h \in Emails, body \in ServiceBodies :
       /\ body.creator # h
       /\ DOMAIN create_service(DB, h, body).db.services # DOMAIN services
  /\ \E c \in Emails, body \in BookingBodies :
       /\ body.creator # c
       /\ DOMAIN create_booking(DB, c, body).db.bookings # DOMAIN bookings

\* C12: the Booking that create_booking stores has confirm = "pending",
\* whatever confirm the payload carried.
C12_CreatedPending ==
  \A c \in Emails, body \in BookingBodies :
    LET r == create_booking(DB, c, body)
    IN \A b \in DOMAIN r.db.bookings \ DOMAIN bookings :
         r.db.bookings[b].confirm = "pending"

\* The stored principals of a collection with email e.
WithEmail(coll, e) == {i \in DOMAIN coll : coll[i].email = e}

\* C13: with no Host (Client) with email e stored, a signup with email e
\* succeeds and leaves exactly one principal with that email; every signup
\* of that kind with email e after it is answered 409 and stores nothing.
C13_SignupOnce ==
  /\ \A body \in HostBodies :
       LET r == sign_new_host_up(UDB, body)
       IN IF WithEmail(hosts, body.email) = {}
            THEN /\ r.code = 200
                 /\ Cardinality(WithEmail(r.db.hosts, body.email)) = 1
                 /\ \A later \in HostBodies :
                      later.email = body.email
                        => LET again == sign_new_host_up(r.db, later)
                           IN again.code = 409 /\ again.db = r.db
            ELSE r.code = 409 /\ r.db = UDB
  /\ \A body \in ClientBodies :
       LET r == sign_new_client_up(UDB, body)
       IN IF WithEmail(clients, body.email) = {}
            THEN /\ r.code = 200
                 /\ Cardinality(WithEmail(r.db.clients, body.email)) = 1
                 /\ \A later \in ClientBodies :
                      later.email = body.email
                        => LET again == sign_new_client_up(r.db, later)
                           IN again.code = 409 /\ again.db = r.db
            ELSE r.code = 409 /\ r.db = UDB

\* C14: under any interleaving of signup requests, no two Host documents
\* and no two Client documents have the same email.
C14_EmailUnique ==
  \A e \in Emails :
    /\ Cardinality(WithEmail(hosts, e)) <= 1
    /\ Cardinality(WithEmail(clients, e)) <= 1

\* C15: after any sequence of signups and self-updates, the stored password
\* of every Host and every Client is a digest of the hash function.
C15_PasswordsHashed ==
  /\ \A i \in DOMAIN hosts : hosts[i].password \in Digests
  /\ \A i \in DOMAIN clients : clients[i].password \in Digests

\* The validly signed tokens that have not expired: those issued, and for
\* every email one that expires an access lifetime from now.
Unexpired ==
  {i.token : i \in {j \in issued : now <= j.token.payload.expires}}
    \cup {Token(e, now + AccessLifetime, TRUE) : e \in Emails}

ExpiredDetails == {"Refresh token expired", "Refresh token expired!"}

\* C16: each of the four verify functions rejects as expired a validly
\* signed token with expires = now - 1, and accepts one with expires =
\* now + 3600 whose subject is a stored principal of its kind, returning the
\* token's claims.
C16_ExpiryBoundary ==
  \A e \in Emails :
    LET old == Token(e, now - 1, TRUE)
        fresh == Token(e, now + 3600, TRUE)
        Rejected(v) == v.code = 403 /\ v.detail \in ExpiredDetails
        Accepted(v) == v.code = 200 /\ v.data = Some(fresh.payload)
    IN /\ Rejected(verify_host_access_token(UDB, now, old))
       /\ Rejected(verify_host_refresh_token(UDB, now, old))
       /\ Rejected(verify_client_access_token(UDB, now, old))
       /\ Rejected(verify_client_refresh_token(UDB, now, old))
       /\ WithEmail(hosts, e) # {}
            => /\ Accepted(verify_host_access_token(UDB, now, fresh))
               /\ Accepted(verify_host_refresh_token(UDB, now, fresh))
       /\ WithEmail(clients, e) # {}
            => /\ Accepted(verify_client_access_token(UDB, now, fresh))
               /\ Accepted(verify_client_refresh_token(UDB, now, fresh))

\* The clock has moved, a Host and a Client are stored, and the verify
\* functions of each reject the old token and accept the fresh one.
C16_Witness ==
  /\ now > 0
  /\ \E e \in Emails :
       /\ WithEmail(hosts, e) # {}
       /\ verify_host_access_token(UDB, now, Token(e, now - 1, TRUE)).code
            = 403
       /\ verify_host_refresh_token(UDB, now, Token(e, now + 3600, TRUE)).code
            = 200
  /\ \E e \in Emails :
       /\ WithEmail(clients, e) # {}
       /\ verify_client_refresh_token(UDB, now, Token(e, now - 1, TRUE)).code
            = 403
       /\ verify_client_access_token(UDB, now, Token(e, now + 3600, TRUE)).code
            = 200

\* C17: a token that was issued and has not expired is rejected by the Host
\* (Client) verify functions in every state in which no Host (Client) with
\* its email is stored, so in every such state after the Host (Client)
\* deleted the account.
C17_DeletedPrincipalRejected ==
  \A i \in issued :
    LET t == i.token
        e == t.payload.user
        Unknown(v) == v.code = 400 /\ v.data = Null
    IN now <= t.payload.expires
         => /\ WithEmail(hosts, e) = {}
                 => /\ Unknown(verify_host_access_token(UDB, now, t))
                    /\ Unknown(verify_host_refresh_token(UDB, now, t))
            /\ WithEmail(clients, e) = {}
                 => /\ Unknown(verify_client_access_token(UDB, now, t))
                    /\ Unknown(verify_client_refresh_token(UDB, now, t))

\* A token issued at a Host's signin, not expired, whose Host has been
\* deleted while another Host is stored.
C17_Witness ==
  \E i \in issued :
    /\ i.kind = "host"
    /\ now <= i.token.payload.expires
    /\ WithEmail(hosts, i.token.payload.user) = {}
    /\ hosts # <<>>
    /\ verify_host_access_token(UDB, now, i.token).code = 400

\* C18: a validly signed token that has not expired is accepted by the
\* Client verify functions exactly when a Client with its subject is
\* stored, and by the Host verify functions exactly when a Host with its
\* subject is stored, whichever signin issued it; so a token issued at a
\* Host's signin is rejected by the Client verify functions whenever no
\* Client has that email.
C18_KindSeparation ==
  /\ \A t \in Unexpired :
       LET e == t.payload.user
       IN /\ verify_client_access_token(UDB, now, t).code = 200
               <=> WithEmail(clients, e) # {}
          /\ verify_client_refresh_token(UDB, now, t).code = 200
               <=> WithEmail(clients, e) # {}
          /\ verify_host_access_token(UDB, now, t).code = 200
               <=> WithEmail(hosts, e) # {}
          /\ verify_host_refresh_token(UDB, now, t).code = 200
               <=> WithEmail(hosts, e) # {}
  /\ \A i \in issued :
       (/\ i.kind = "host"
        /\ now <= i.token.payload.expires
        /\ WithEmail(clients, i.token.payload.user) = {})
         => /\ verify_client_access_token(UDB, now, i.token).code # 200
            /\ verify_client_refresh_token(UDB, now, i.token).code # 200

\* A token issued at a Host's signin that the Host verify function accepts
\* and the Client verify function rejects, with a Client of another email
\* stored.
C18_Witness ==
  \E i \in issued :
    /\ i.kind = "host"
    /\ clients # <<>>
    /\ WithEmail(clients, i.token.payload.user) = {}
    /\ verify_host_access_token(UDB, now, i.token).code = 200
    /\ verify_client_access_token(UDB, now, i.token).code = 400

\* The stored principals of a kind with email e.
Stored(kind, e) ==
  IF kind = "host" THEN WithEmail(hosts, e) ELSE WithEmail(clients, e)

\* The refresh tokens a request may carry: none, or a token that was issued.
Carried == Opt({i.token : i \in issued})

\* C19: given an access token that a signin returned, that has not expired
\* and whose subject is a stored principal of the kind that signed in, the
\* auth dependency succeeds and yields the principal, and does not consult
\* the refresh token.
C19_AccessTokenAuthenticates ==
  \A i \in issued, refresh_token \in Carried :
    (/\ i.use = "access"
     /\ now <= i.token.payload.expires
     /\ Stored(i.kind, i.token.payload.user) # {})
      => LET a == authenticate(UDB, now, Some(i.token), refresh_token,
                               Some(i.kind))
         IN a.code = 200 /\ a.user_id # Null /\ ~a.refreshed

\* C20: the auth dependency consults the refresh token only when the access
\* token failed verification because it had expired; an access token with a
\* wrong signature or structure is rejected even with a valid refresh
\* token; a failure of the refresh step is rejected; and a principal is
\* returned only when the access token verified or, after its expiry, the
\* refresh token did.
C20_RefreshOnlyOnExpiry ==
  \A kind \in Kinds, access_token \in Presented, refresh_token \in Carried :
    LET first == verify_access_token(UDB, now, access_token, kind)
        a == authenticate(UDB, now, Some(access_token), refresh_token,
                          Some(kind))
        RefreshVerifies ==
          /\ refresh_token # Null
          /\ verify_refresh_token(UDB, now, refresh_token[1], kind).code = 200
    IN /\ a.refreshed => first.code = 403
       /\ jwt_decode(access_token) = Null => a.code = 403
       /\ (a.refreshed /\ ~RefreshVerifies) => a.code = 403
       /\ a.code = 200
            => first.code = 200 \/ (first.code = 403 /\ RefreshVerifies)

\* C21: for a stored principal, the refresh-token route answers 401 and
\* returns no token when the token presented has a wrong signature or has
\* expired, and returns a new access and refresh token for the subject when
\* the token is a valid refresh token whose subject is the username.
C21_RefreshEndpoint ==
  \A kind \in Kinds, username \in Emails :
    Stored(kind, username) # {}
      => LET refresh(t) ==
               IF kind = "host"
                 THEN refresh_host_access_token(UDB, now, username, t)
                 ELSE refresh_client_access_token(UDB, now, username, t)
             Refused(r) == r.code = 401 /\ r.tokens = <<>>
             valid == refresh(create_refresh_token(username, now))
         IN /\ \A e \in Emails :
                 /\ Refused(refresh(Token(e, now + RefreshLifetime, FALSE)))
                 /\ Refused(refresh(Token(e, now - 1, TRUE)))
            /\ \A t \in Presented : ~t.signed => Refused(refresh(t))
            /\ valid.code = 200
            /\ valid.tokens = <<create_access_token(username, now),
                                create_refresh_token(username, now)>>

\* The partial documents of the update schemas, any field None or a value.
ServicePartials ==
  [service_name : Opt({"bar"}), available_bag : Opt({0}),
   total_available_bag : Opt({MaxBag + 1})]

BookingPartials ==
  [booking_date : Opt({"d2"}), booking_bag : Opt({MaxBag})]
    \cup BookingConfirmUpdates

\* Database.update(id, body) on coll: with id stored, the fields of the body
\* that are not None have the body's value, every other field of the
\* document and every other document is as before, and the document is
\* returned; with id not stored, the sentinel is returned and the collection
\* is as before.
UpdateFrame(coll, id, body) ==
  LET after == Database_update(coll, id, body)
      result == Database_update_result(coll, id, body)
  IN IF id \in DOMAIN coll
       THEN /\ DOMAIN after = DOMAIN coll
            /\ \A j \in DOMAIN coll \ {id} : after[j] = coll[j]
            /\ DOMAIN after[id] = DOMAIN coll[id]
            /\ \A f \in DOMAIN coll[id] :
                 after[id][f] = IF f \in DOMAIN body /\ body[f] # Null
                                  THEN body[f][1]
                                  ELSE coll[id][f]
            /\ result = Some(after[id])
       ELSE after = coll /\ result = Null

\* C22: Database.update sets exactly the fields that are not None in the
\* body and leaves every other stored field as it was, the fields that are
\* None in the body among them; for an id that is not stored it returns the
\* not-found sentinel and changes nothing.
C22_UpdateFrame ==
  /\ \A id \in ServiceIds, body \in ServicePartials :
       UpdateFrame(services, id, body)
  /\ \A id \in BookingIds, body \in BookingPartials :
       UpdateFrame(bookings, id, body)

\* One booking is stored and the other id is not; an update with one field
\* None and the other a new value changes the stored booking, and the same
\* update of the other id returns the sentinel.
C22_Witness ==
  \E id \in DOMAIN bookings, other \in BookingIds \ DOMAIN bookings :
    LET body == [booking_date |-> Null, booking_bag |-> Some(MaxBag)]
    IN /\ bookings[id].booking_bag # MaxBag
       /\ Database_update(bookings, id, body)[id].booking_bag = MaxBag
       /\ Database_update_result(bookings, other, body) = Null
       /\ services # <<>>

\* C23: each of update service, delete service, update booking, delete
\* booking and booking status transition, asked for an id that is not
\* stored, answers 404 and leaves the stored state as it was.
C23_ExistenceFirst ==
  LET NotFound(r) == r.code = 404 /\ r.db = DB
  IN /\ \A h \in Emails, s \in ServiceIds \ DOMAIN services :
          /\ \A body \in ServiceUpdates :
               NotFound(update_service(DB, h, s, body))
          /\ NotFound(delete_service(DB, h, s))
     /\ \A c \in Emails, b \in BookingIds \ DOMAIN bookings :
          /\ \A body \in BookingUpdates :
               NotFound(update_booking(DB, c, b, body))
          /\ NotFound(delete_booking_bag(DB, c, b))
          /\ \A body \in BookingConfirmUpdates :
               NotFound(update_booking_status(DB, c, b, body))

\* C24: an update of a booking by its creator that carries booking_date and
\* no booking_bag succeeds, stores the new dates and leaves the booking's
\* booking_bag and the parent service's available_bag as they were.
C24_DateOnlyUpdate ==
  \A b \in DOMAIN bookings, body \in BookingUpdates :
    (/\ body.booking_bag = Null
     /\ body.booking_date # Null
     /\ bookings[b].service \in DOMAIN services)
      => LET s == bookings[b].service
             r == update_booking(DB, bookings[b].creator, b, body)
         IN /\ r.code = 200
            /\ r.db.bookings[b].booking_date = body.booking_date[1]
            /\ r.db.bookings[b].booking_bag = bookings[b].booking_bag
            /\ r.db.services[s].available_bag = services[s].available_bag

\* C25: a service created with available_bag >= 0 has available_bag >= 0 in
\* every state that booking create, quantity update, delete and status
\* transition requests, handled one after another, lead to, whatever integer
\* booking_bag they carry.
C25_NonNegative ==
  \A s \in DOMAIN services : services[s].available_bag >= 0

\* C26: with every booking of one bag or more, a service created with
\* available_bag = total_available_bag that no Host has edited never has
\* more available_bag than total_available_bag: the bags of a booking are
\* returned at most once, also when it is cancelled and then deleted.
C26_ReturnedOnce ==
  (\A b \in DOMAIN bookings : bookings[b].booking_bag > 0)
    => \A s \in DOMAIN services \cap pristine :
         services[s].available_bag <= services[s].total_available_bag

\* C27: every stored booking's service is a stored Service, also after the
\* Host deleted a service that has bookings, and so the delete of a booking
\* by its creator finds the parent service and answers with the delete
\* confirmation.
C27_ReferentialIntegrity ==
  \A b \in DOMAIN bookings :
    /\ bookings[b].service \in DOMAIN services
    /\ LET r == delete_booking_bag(DB, bookings[b].creator, b)
       IN r.code = 200 /\ b \notin DOMAIN r.db.bookings

\* C28: no step of a service update, a booking update, a status transition
\* or a capacity adjustment, in any interleaving, changes the creator of a
\* stored Service or Booking or the service of a stored Booking.
C28_Immutable ==
  [][/\ \A s \in DOMAIN services \cap DOMAIN services' :
          services'[s].creator = services[s].creator
     /\ \A b \in DOMAIN bookings \cap DOMAIN bookings' :
          /\ bookings'[b].creator = bookings[b].creator
          /\ bookings'[b].service = bookings[b].service]_vars

\* The Host has updated the service and a status transition has cancelled
\* a booking; a quantity update has then read the booking and the service,
\* has written the service and is about to write the booking.
C28_Witness ==
  \E s \in DOMAIN services, b \in DOMAIN bookings, r \in Requests :
    /\ services[s].service_name = "bar"
    /\ bookings[b].service = s
    /\ bookings[b].confirm = "cancelled"
    /\ reqs[r].pc = "written"
    /\ reqs[r].op = "update"
    /\ reqs[r].id = b
    /\ reqs[r].body[1].booking_bag # Some(bookings[b].booking_bag)
    /\ services[s].creator = reqs[r].service[1].creator
    /\ services[s].available_bag = reqs[r].service[1].available_bag

\* C29: for a stored principal, the refresh-token route returns tokens only
\* for a token that was issued as a refresh token to that principal: an
\* access token that has not expired is refused and returns none, and a
\* refresh token whose subject is another stored principal is answered 401
\* and returns none.
C29_RefreshTokensOnly ==
  \A kind \in Kinds, username \in Emails, i \in issued :
    (/\ Stored(kind, username) # {}
     /\ i.kind = kind
     /\ now <= i.token.payload.expires)
      => LET r == IF kind = "host"
                    THEN refresh_host_access_token(UDB, now, username, i.token)
                    ELSE refresh_client_access_token(UDB, now, username,
                                                     i.token)
             user == i.token.payload.user
         IN /\ i.use = "access" => r.code # 200 /\ r.tokens = <<>>
            /\ (/\ i.use = "refresh"
                /\ user # username
                /\ Stored(kind, user) # {})
                 => r.code = 401 /\ r.tokens = <<>>
            /\ r.code = 200 => i.use = "refresh" /\ user = username

\* C30: a step of a booking request (create, quantity update, delete, status
\* transition) changes of a stored service only available_bag and the
\* bookings list, so that what the Host's update wrote to the other fields
\* between the request's read of the service and its write is still there
\* afterwards.
C30_AdjustmentOnly ==
  [][reqs' # reqs
       => \A s \in DOMAIN services \cap DOMAIN services' :
            /\ services'[s].service_name = services[s].service_name
            /\ services'[s].total_available_bag
                 = services[s].total_available_bag
            /\ services'[s].creator = services[s].creator]_vars

====
